---- MODULE Spec2Model ----
(***************************************************************************)
(* SKYTECH-3 snapshot job (src/src/skytech_snapshot.py).                   *)
(*                                                                         *)
(* Numbers are floats with the IEEE special values.  A number is a pair    *)
(* <<n, d>>: a reduced fraction n/d with d > 0 when finite, and            *)
(* <<0,0>> = NaN, <<1,0>> = +inf, <<-1,0>> = -inf.  Finite arithmetic is   *)
(* exact (no rounding of the mantissa); division by zero, NaN propagation  *)
(* and NaN-skipping reductions follow numpy/pandas.                        *)
(*                                                                         *)
(* A DataFrame is [index, cols, data]: index a sequence of timestamps,     *)
(* cols the column labels in order, data[c][r] the value of column c at    *)
(* row r.  A Series is [index, vals].                                      *)
(***************************************************************************)
EXTENDS Integers, Sequences, FiniteSets, TLC

VARIABLES pc, conf, raw, daily, levels, k, fetched, tried, iday, intraday,
          pct_now, stats, files

vars == <<pc, conf, raw, daily, levels, k, fetched, tried, iday, intraday,
          pct_now, stats, files>>

(***************************************************************************)
(* Bounds of the model                                                     *)
(***************************************************************************)
\* rows (trading days) of the provider's daily table
MaxDates == 2
\* 5-minute buckets of one intraday session
MaxSlots == 2

(***************************************************************************)
(* Float arithmetic                                                        *)
(***************************************************************************)
NaN == <<0, 0>>
PosInf == <<1, 0>>
NegInf == <<-1, 0>>

Abs(i) == IF i < 0 THEN -i ELSE i

Sgn(i) == IF i < 0 THEN -1 ELSE IF i = 0 THEN 0 ELSE 1

RECURSIVE GCD(_, _)
GCD(a, b) == IF b = 0 THEN a ELSE GCD(b, a % b)

\* the float n/d, d # 0
Rat(n, d) ==
  LET g == GCD(Abs(n), Abs(d))
  IN  <<(Sgn(d) * n) \div g, Abs(d) \div g>>

Num(i) == <<i, 1>>

IsNaN(x) == x = NaN

IsFinite(x) == x[2] # 0

Neg(x) == <<-x[1], x[2]>>

Add(x, y) ==
  IF IsNaN(x) \/ IsNaN(y) THEN NaN
  ELSE IF ~IsFinite(x) THEN (IF ~IsFinite(y) /\ y # x THEN NaN ELSE x)
  ELSE IF ~IsFinite(y) THEN y
  ELSE Rat(x[1] * y[2] + y[1] * x[2], x[2] * y[2])

Sub(x, y) == Add(x, Neg(y))

Mul(x, y) ==
  IF IsNaN(x) \/ IsNaN(y) THEN NaN
  ELSE IF IsFinite(x) /\ IsFinite(y) THEN Rat(x[1] * y[1], x[2] * y[2])
  ELSE IF x[1] = 0 \/ y[1] = 0 THEN NaN
  ELSE <<Sgn(x[1]) * Sgn(y[1]), 0>>

\* x / y as numpy divides floats: x/0 is +-inf, 0/0 and inf/inf are NaN
Div(x, y) ==
  IF IsNaN(x) \/ IsNaN(y) THEN NaN
  ELSE IF IsFinite(x) /\ IsFinite(y)
       THEN (IF y[1] = 0 THEN <<Sgn(x[1]), 0>>
             ELSE Rat(x[1] * y[2], x[2] * y[1]))
  ELSE IF ~IsFinite(x) /\ ~IsFinite(y) THEN NaN
  ELSE IF ~IsFinite(x) THEN <<x[1] * (IF y[1] < 0 THEN -1 ELSE 1), 0>>
  ELSE Num(0)

\* floor of n/d, d > 0
FloorDiv(n, d) == IF n >= 0 THEN n \div d ELSE -((-n + d - 1) \div d)

\* np.round(x, 2): to the nearest 1/100, ties to the even neighbour
Round2Half(x) ==
  LET n  == 100 * x[1]
      d  == x[2]
      lo == FloorDiv(n, d)
      r2 == 2 * (n - lo * d)
      q  == IF r2 < d THEN lo
            ELSE IF r2 > d THEN lo + 1
            ELSE IF lo % 2 = 0 THEN lo ELSE lo + 1
  IN  Rat(q, 100)

Round2(x) == IF IsFinite(x) THEN Round2Half(x) ELSE x

RECURSIVE SumSeq(_)
SumSeq(s) == IF s = <<>> THEN Num(0) ELSE Add(SumSeq(SubSeq(s, 1, Len(s) - 1)), s[Len(s)])

\* the elements of s that are not NaN, in order
RECURSIVE NotNaNs(_)
NotNaNs(s) ==
  IF s = <<>> THEN <<>>
  ELSE IF IsNaN(s[1]) THEN NotNaNs(Tail(s))
  ELSE <<s[1]>> \o NotNaNs(Tail(s))

\* the mean that divides by the number of columns, missing ones included
MeanCountAll(s) ==
  IF NotNaNs(s) = <<>> THEN NaN ELSE Div(SumSeq(NotNaNs(s)), Num(Len(s)))

\* DataFrame.mean(axis=1) on one row: the mean of the values that are not NaN
MeanSkipNa(s) ==
  LET v == NotNaNs(s)
  IN  IF v = <<>> THEN NaN ELSE Div(SumSeq(v), Num(Len(v)))

(***************************************************************************)
(* Frames and series                                                       *)
(***************************************************************************)
EmptyFrame == [index |-> <<>>, cols |-> <<>>, data |-> <<>>]

EmptySeries == [index |-> <<>>, vals |-> <<>>]

\* DataFrame.empty: some axis has length 0
FrameEmpty(df) == Len(df.index) = 0 \/ Len(df.cols) = 0

SeriesEmpty(s) == Len(s.index) = 0

\* row r of df, across the columns in their order
Row(df, r) == [c \in 1..Len(df.cols) |-> df.data[c][r]]

\* DataFrame.mean(axis=1)
MeanAxis1(df) ==
  [index |-> df.index,
   vals  |-> [r \in 1..Len(df.index) |-> MeanSkipNa(Row(df, r))]]

\* Series.ffill / Series.bfill of one column
Ffill(col) ==
  LET f[i \in 0..Len(col)] ==
        IF i = 0 THEN NaN ELSE IF ~IsNaN(col[i]) THEN col[i] ELSE f[i - 1]
  IN  [i \in 1..Len(col) |-> f[i]]

Bfill(col) ==
  LET n == Len(col)
      f[j \in 0..n] ==
        IF j = 0 THEN NaN
        ELSE IF ~IsNaN(col[n + 1 - j]) THEN col[n + 1 - j] ELSE f[j - 1]
  IN  [i \in 1..n |-> f[n + 1 - i]]

(***************************************************************************)
(* build_levels_eq                                                         *)
(***************************************************************************)
build_levels_eq(d, base_level) ==
  IF FrameEmpty(d) THEN EmptySeries
  ELSE
    LET filled == [c \in 1..Len(d.cols) |-> Bfill(Ffill(d.data[c]))]
        base   == [c \in 1..Len(d.cols) |-> filled[c][1]]
        norm   == [index |-> d.index, cols |-> d.cols,
                   data  |-> [c \in 1..Len(d.cols) |->
                               [r \in 1..Len(d.index) |-> Div(filled[c][r], base[c])]]]
        mean   == MeanAxis1(norm)
    IN  [index |-> mean.index,
         vals  |-> [r \in 1..Len(mean.index) |-> Mul(mean.vals[r], base_level)]]

(***************************************************************************)
(* Index helpers                                                           *)
(***************************************************************************)
RECURSIVE SortedSeq(_)
SortedSeq(S) ==
  IF S = {} THEN <<>>
  ELSE LET m == CHOOSE x \in S : \A y \in S : x <= y
       IN  <<m>> \o SortedSeq(S \ {m})

Range(s) == {s[i] : i \in 1..Len(s)}

\* the position of x in the sequence s (x occurs in s)
PosOf(s, x) == CHOOSE i \in 1..Len(s) : s[i] = x

\* the rows of df at the positions rows, in that order
TakeRows(df, rows) ==
  [index |-> [r \in 1..Len(rows) |-> df.index[rows[r]]],
   cols  |-> df.cols,
   data  |-> [c \in 1..Len(df.cols) |-> [r \in 1..Len(rows) |-> df.data[c][rows[r]]]]]

\* a frame that keeps the order of its rows
KeepRowOrder(df) == df

\* DataFrame.sort_index(): rows by ascending index
SortIndex(df) ==
  LET order == SortedSeq(Range(df.index))
  IN  TakeRows(df, [r \in 1..Len(order) |-> PosOf(df.index, order[r])])

\* df[df.index >= lo]
RowsFrom(df, lo) ==
  TakeRows(df, SelectSeq([r \in 1..Len(df.index) |-> r], LAMBDA r : df.index[r] >= lo))

(***************************************************************************)
(* _download_daily: the provider's table to one price column per ticker    *)
(***************************************************************************)
KeyError == [error |-> "KeyError"]

Raised(x) == "error" \in DOMAIN x

\* df[[label]].rename(columns={label: name}) on flat columns; a flat label
\* is the 1-tuple <<label>>
PickFlat(df, label, name) ==
  IF <<label>> \notin Range(df.cols) THEN KeyError
  ELSE [index |-> df.index, cols |-> <<name>>,
        data  |-> <<df.data[PosOf(df.cols, <<label>>)]>>]

\* df.xs(label, axis=1, level=lev, drop_level=True); lev is 1 or 2 here
\* (pandas counts the levels 0 and 1)
Xs(df, label, lev) ==
  LET hit == SelectSeq([c \in 1..Len(df.cols) |-> c],
                       LAMBDA c : df.cols[c][lev] = label)
  IN  IF hit = <<>> THEN KeyError
      ELSE [index |-> df.index,
            cols  |-> [c \in 1..Len(hit) |-> df.cols[hit[c]][3 - lev]],
            data  |-> [c \in 1..Len(hit) |-> df.data[hit[c]]]]

\* "label in cols.get_level_values(lev)"
LevelHas(df, label, lev) == \E c \in 1..Len(df.cols) : df.cols[c][lev] = label

\* the extractor that takes the columns for (Ticker, Field) pairs always
ExtractMultiTickerFirst(df) ==
  IF LevelHas(df, "Adj Close", 2) THEN Xs(df, "Adj Close", 2) ELSE Xs(df, "Close", 2)

\* lines 48-66: the field may sit on either level of the column pairs
ExtractMulti(df) ==
  IF LevelHas(df, "Adj Close", 2) THEN Xs(df, "Adj Close", 2)
  ELSE IF LevelHas(df, "Adj Close", 1) THEN Xs(df, "Adj Close", 1)
  ELSE IF LevelHas(df, "Close", 2) THEN Xs(df, "Close", 2)
  ELSE Xs(df, "Close", 1)

\* lines 38-46: one ticker, flat columns
ExtractFlat(tickers, df) ==
  IF <<"Adj Close">> \in Range(df.cols) THEN PickFlat(df, "Adj Close", tickers[1])
  ELSE PickFlat(df, "Close", tickers[1])

_download_daily(tickers, df) ==
  LET out == IF df.multi THEN ExtractMulti(df) ELSE ExtractFlat(tickers, df)
  IN  IF Raised(out) THEN KeyError ELSE SortIndex(out)

(***************************************************************************)
(* _download_intraday: fetch_for and the look-back over earlier days        *)
(*                                                                         *)
(* A timestamp is an instant counted in 5-minute buckets from 00:00 JST of *)
(* the target date D; lines 83-85 express every index in JST, so the       *)
(* calendar date of an instant is DayOf, and date D - j is the day -j.     *)
(***************************************************************************)
SlotsPerDay == 288

LookBack == 3

DayOf(ts) == FloorDiv(ts, SlotsPerDay)

\* lines 76-81: the bars a ticker's download yields; an exception or an
\* empty table leaves none
BarsOf(o) == IF o.kind = "bars" THEN o.bars ELSE <<>>

\* the bars of the download, of whatever date
OnDateAny(bars, date0) == bars

\* line 86: the bars whose JST date is date0
OnDate(bars, date0) == SelectSeq(bars, LAMBDA b : DayOf(b.ts) = date0)

\* the percent against the first close of the day
PctVsFirstClose(bars) ==
  [index |-> [r \in 1..Len(bars) |-> bars[r].ts],
   vals  |-> [r \in 1..Len(bars) |->
               Mul(Sub(Div(bars[r].close, bars[1].close), Num(1)), Num(100))]]

\* lines 89-90: percent of every close against the first bar's open
PctVsOpen(bars) ==
  LET price0 == bars[1].open
  IN  [index |-> [r \in 1..Len(bars) |-> bars[r].ts],
       vals  |-> [r \in 1..Len(bars) |->
                   Mul(Sub(Div(bars[r].close, price0), Num(1)), Num(100))]]

\* the timestamps of the series in frames, each once, in order of appearance
RECURSIVE JoinIndex(_)
JoinIndex(frames) ==
  IF frames = <<>> THEN <<>>
  ELSE LET head == JoinIndex(SubSeq(frames, 1, Len(frames) - 1))
           last == frames[Len(frames)].s.index
       IN  head \o SelectSeq(last, LAMBDA t : t \notin Range(head))

\* pd.concat(frames, axis=1): one column per series, outer join on the index
Concat(frames) ==
  LET idx == JoinIndex(frames)
  IN  [index |-> idx,
       cols  |-> [c \in 1..Len(frames) |-> frames[c].name],
       data  |-> [c \in 1..Len(frames) |->
                   [r \in 1..Len(idx) |->
                     IF idx[r] \in Range(frames[c].s.index)
                     THEN frames[c].s.vals[PosOf(frames[c].s.index, idx[r])]
                     ELSE NaN]]]

\* lines 74-91: the named percent series of the tickers that have bars on date0
Frames(tickers, got, date0) ==
  LET live == SelectSeq([i \in 1..Len(tickers) |-> i],
                        LAMBDA i : OnDate(BarsOf(got[i]), date0) # <<>>)
  IN  [c \in 1..Len(live) |->
        [name |-> tickers[live[c]], s |-> PctVsOpen(OnDate(BarsOf(got[live[c]]), date0))]]

\* lines 73-94; got[i] is what the download of tickers[i] yields
fetch_for(tickers, got, date0) ==
  LET frames == Frames(tickers, got, date0)
  IN  IF frames = <<>> THEN EmptyFrame ELSE SortIndex(Concat(frames))

\* the look-back that goes on to the earlier days whatever it has found
MoreAttemptsNoBreak(df, j) == j < LookBack

\* lines 97-102: another, earlier day is tried while the result is empty
MoreAttempts(df, j) == FrameEmpty(df) /\ j < LookBack

(***************************************************************************)
(* Stats of main                                                           *)
(***************************************************************************)
None == <<>>

Last(s) == s.vals[Len(s.vals)]

\* pct_now with a missing value when there is no session
PctNowNaN(s) == IF ~SeriesEmpty(s) THEN Round2(Last(s)) ELSE NaN

\* lines 133-138
PctNow(s) == IF ~SeriesEmpty(s) THEN Round2(Last(s)) ELSE Num(0)

\* line 140
LastLevel(s) == IF ~SeriesEmpty(s) THEN Round2(Last(s)) ELSE None

(***************************************************************************)
(* Inputs: the configuration and what the provider answers                 *)
(***************************************************************************)
Basket == <<"A", "B", "C">>

\* the first n tickers of the basket, for every n in ns
TickerLists(ns) == {SubSeq(Basket, 1, n) : n \in ns}

Confs(tickerLists, baseDates, baseLevels, hasKeys) ==
  {[tickers |-> t, base_date |-> d, base_level |-> b, has_key |-> h] :
     t \in tickerLists, d \in baseDates, b \in baseLevels, h \in hasKeys}

FieldsAdj == <<"Open", "Close", "Adj Close">>
FieldsClose == <<"Open", "Close">>
FieldsNone == <<"Open">>

\* the provider's daily table: layout "flat" has one field per column, "TF"
\* has (ticker, field) pairs, "FT" has (field, ticker) pairs.  P[i][r] is the
\* price of tickers[i] on row r; it is the adjusted close when the table has
\* one and the close otherwise, and a close beside an adjusted close is one
\* above it.
MkRaw(tickers, layout, fields, n, P) ==
  LET nt == Len(tickers)
      nf == Len(fields)
      ti(j) == IF layout = "FT" THEN ((j - 1) % nt) + 1 ELSE ((j - 1) \div nf) + 1
      fi(j) == IF layout = "FT" THEN ((j - 1) \div nt) + 1 ELSE ((j - 1) % nf) + 1
      price == IF "Adj Close" \in Range(fields) THEN "Adj Close" ELSE "Close"
      col(i, f) == IF f = price THEN P[i]
                   ELSE IF f = "Close" THEN [r \in 1..n |-> Add(P[i][r], Num(1))]
                   ELSE [r \in 1..n |-> Num(1)]
  IN  [multi |-> layout # "flat",
       index |-> [r \in 1..n |-> r],
       cols  |-> [j \in 1..(nt * nf) |->
                   IF layout = "flat" THEN <<fields[fi(j)]>>
                   ELSE IF layout = "TF" THEN <<tickers[ti(j)], fields[fi(j)]>>
                   ELSE <<fields[fi(j)], tickers[ti(j)]>>],
       data  |-> [j \in 1..(nt * nf) |-> col(ti(j), fields[fi(j)])]]

\* the layouts a table of these tickers can have: flat only for one ticker
LayoutsFor(tickers, layouts) == {l \in layouts : l = "flat" => Len(tickers) = 1}

\* the price tables of n rows
Prices(tickers, n, vals) == [1..Len(tickers) -> [1..n -> vals]]

NoRaw == [multi |-> FALSE, index |-> <<>>, cols |-> <<>>, data |-> <<>>]

\* one ticker's intraday table: bars at the buckets S of day d, the first
\* opening at o and closing at c[s]; a later bar opens one above o
BarTable(d, S, o, c) ==
  LET slots == SortedSeq(S)
  IN  [kind |-> "bars",
       bars |-> [r \in 1..Len(slots) |->
                  [ts    |-> d * SlotsPerDay + slots[r],
                   open  |-> IF r = 1 THEN o ELSE Add(o, Num(1)),
                   close |-> c[slots[r]]]]]

\* what one download can yield: an exception, an empty table, or bars
Outcomes(days, slotSets, opens, closes) ==
  {[kind |-> "raise"], [kind |-> "empty"]} \cup
  UNION {{BarTable(d, S, o, c) : d \in days, o \in opens, c \in [S -> closes]} :
           S \in slotSets}

(***************************************************************************)
(* main: one run, a step per call that fetches, computes or writes         *)
(***************************************************************************)
LevelsCsv == "skytech_3_levels.csv"
IntradayCsv == "skytech_3_intraday.csv"
StatsJson == "skytech_3_stats.json"
LastRunTxt == "last_run.txt"
PostTxt == "skytech_3_post_intraday.txt"
PostCompatTxt == "post_intraday.txt"

NoStats == [key |-> None, pct_intraday |-> None, last_level |-> None, tickers |-> <<>>]

\* lines 123-125: the extracted table, from the base date on
DailyOf(c, r) ==
  LET out == _download_daily(c.tickers, r)
  IN  IF Raised(out) THEN KeyError
      ELSE IF ~FrameEmpty(out) THEN RowsFrom(out, c.base_date) ELSE out

InitAt(p, c, r, d, f, k0, t0) ==
  /\ pc = p
  /\ conf = c
  /\ raw = r
  /\ daily = d
  /\ levels = EmptySeries
  /\ k = k0
  /\ fetched = <<>>
  /\ tried = t0
  /\ iday = EmptyFrame
  /\ intraday = EmptySeries
  /\ pct_now = None
  /\ stats = NoStats
  /\ files = f

\* lines 123-125; the provider answers with a table in one of layouts, with
\* one of fieldSets, of rowCounts rows, with prices among vals
DownloadDaily(layouts, fieldSets, rowCounts, vals) ==
  /\ pc = "start"
  /\ \E l \in LayoutsFor(conf.tickers, layouts), f \in fieldSets, n \in rowCounts :
       \E P \in Prices(conf.tickers, n, vals) :
         LET r == MkRaw(conf.tickers, l, f, n, P)
         IN  /\ raw' = r
             /\ IF Raised(DailyOf(conf, r))
                THEN pc' = "failed" /\ daily' = daily
                ELSE pc' = "levels" /\ daily' = DailyOf(conf, r)
  /\ UNCHANGED <<conf, levels, k, fetched, tried, iday, intraday, pct_now, stats, files>>

\* line 126
BuildLevels ==
  /\ pc = "levels"
  /\ levels' = build_levels_eq(daily, conf.base_level)
  /\ pc' = "write_levels"
  /\ UNCHANGED <<conf, raw, daily, k, fetched, tried, iday, intraday, pct_now, stats, files>>

\* line 127
WriteLevels ==
  /\ pc = "write_levels"
  /\ files' = files \cup {LevelsCsv}
  /\ pc' = "fetch"
  /\ UNCHANGED <<conf, raw, daily, levels, k, fetched, tried, iday, intraday, pct_now, stats>>

\* lines 96-103: the k-th attempt, for the day D - k; each download yields
\* one of outcomes
FetchFor(outcomes) ==
  /\ pc = "fetch"
  /\ \E got \in [1..Len(conf.tickers) -> outcomes] :
       LET df == fetch_for(conf.tickers, got, -k)
       IN  /\ fetched' = got
           /\ iday' = df
           /\ tried' = Append(tried, [date |-> -k, df |-> df])
           /\ IF MoreAttempts(df, k)
              THEN k' = k + 1 /\ pc' = "fetch"
              ELSE k' = k /\ pc' = "mean"
  /\ UNCHANGED <<conf, raw, daily, levels, intraday, pct_now, stats, files>>

\* line 132
MeanIntraday ==
  /\ pc = "mean"
  /\ intraday' = IF ~FrameEmpty(iday) THEN MeanAxis1(iday) ELSE EmptySeries
  /\ pc' = "write_intraday"
  /\ UNCHANGED <<conf, raw, daily, levels, k, fetched, tried, iday, pct_now, stats, files>>

\* lines 133-138
WriteIntraday ==
  /\ pc = "write_intraday"
  /\ files' = IF ~SeriesEmpty(intraday) THEN files \cup {IntradayCsv} ELSE files
  /\ pct_now' = PctNow(intraday)
  /\ pc' = "stats"
  /\ UNCHANGED <<conf, raw, daily, levels, k, fetched, tried, iday, intraday, stats>>

\* lines 140-148; conf["key"] raises KeyError when the configuration has no key
BuildStats ==
  /\ pc = "stats"
  /\ IF conf.has_key
     THEN /\ stats' = [key |-> "SKYTECH-3", pct_intraday |-> pct_now,
                       last_level |-> LastLevel(levels), tickers |-> conf.tickers]
          /\ pc' = "write_stats"
     ELSE /\ stats' = stats
          /\ pc' = "failed"
  /\ UNCHANGED <<conf, raw, daily, levels, k, fetched, tried, iday, intraday, pct_now, files>>

\* line 149
WriteStats ==
  /\ pc = "write_stats"
  /\ files' = files \cup {StatsJson}
  /\ pc' = "write_last_run"
  /\ UNCHANGED <<conf, raw, daily, levels, k, fetched, tried, iday, intraday, pct_now, stats>>

\* line 150
WriteLastRun ==
  /\ pc = "write_last_run"
  /\ files' = files \cup {LastRunTxt}
  /\ pc' = "write_post"
  /\ UNCHANGED <<conf, raw, daily, levels, k, fetched, tried, iday, intraday, pct_now, stats>>

\* lines 152-158
WritePost ==
  /\ pc = "write_post"
  /\ files' = files \cup {PostTxt, PostCompatTxt}
  /\ pc' = "done"
  /\ UNCHANGED <<conf, raw, daily, levels, k, fetched, tried, iday, intraday, pct_now, stats>>

(***************************************************************************)
(* Specifications                                                          *)
(***************************************************************************)
Slots == 1..MaxSlots

AllSlotSets == SUBSET Slots \ {{}}

BaseLevels == {Num(1000), Rat(2001, 200)}

\* Spec: whole runs of main
RunConfs == Confs(TickerLists({1, 2}), {1}, BaseLevels, BOOLEAN)

\* the daily tables of a run: flat or (ticker, field) columns, with or without
\* closes, no row or MaxDates rows
RunLayouts == {"flat", "TF"}

RunFields == {FieldsAdj, FieldsNone}

RunRowCounts == {0, MaxDates}

RunPrices == {Num(1), Num(2)}

RunOutcomes == Outcomes({-1, 0}, {{1}}, {Num(3)}, {Num(1), Num(2)})

Init == \E c \in RunConfs : InitAt("start", c, NoRaw, EmptyFrame, {}, 0, <<>>)

Next ==
  \/ DownloadDaily(RunLayouts, RunFields, RunRowCounts, RunPrices)
  \/ BuildLevels
  \/ WriteLevels
  \/ FetchFor(RunOutcomes)
  \/ MeanIntraday
  \/ WriteIntraday
  \/ BuildStats
  \/ WriteStats
  \/ WriteLastRun
  \/ WritePost

Spec == Init /\ [][Next]_vars

\* SpecDaily: _download_daily on every shape of the provider's table
DailyConfs == Confs(TickerLists({1, 2, 3}), {1, 2}, {Num(1000)}, {TRUE})

InitDaily == \E c \in DailyConfs : InitAt("start", c, NoRaw, EmptyFrame, {}, 0, <<>>)

\* every column layout and every field set, prices missing or present
DailyLayouts == {"flat", "TF", "FT"}

DailyFields == {FieldsAdj, FieldsClose, FieldsNone}

DailyPrices == {NaN, Num(1), Num(2)}

NextDaily ==
  DownloadDaily(DailyLayouts, DailyFields, 0..MaxDates, DailyPrices)

SpecDaily == InitDaily /\ [][NextDaily]_vars

\* SpecBuilders: build_levels_eq on every extracted table, and the last
\* attempt of fetch_for with its average on every answer of the downloads
LevelConfs == Confs(TickerLists({1, 2, 3}), {1}, BaseLevels, {TRUE})

LevelVals == {NaN, Num(-1), Num(0), Num(1), Num(2)}

InitLevels ==
  \E c \in LevelConfs, n \in 0..MaxDates :
    \E P \in Prices(c.tickers, n, LevelVals) :
      LET r == MkRaw(c.tickers, "TF", FieldsAdj, n, P)
      IN  InitAt("levels", c, r, DailyOf(c, r), {}, 0, <<>>)

FetchConfs == Confs(TickerLists({3}), {1}, {Num(1000)}, {TRUE})

\* sessions of the day D - LookBack, and one of the day after it
FetchOutcomes ==
  Outcomes({-LookBack}, AllSlotSets, {Num(0), Num(1), Num(2)}, {NaN, Num(1), Num(2)})
  \cup {BarTable(1 - LookBack, {1}, Num(1), [s \in {1} |-> Num(2)])}

\* the attempts for D .. D - LookBack + 1 have found nothing
EmptyAttempts == [j \in 1..LookBack |-> [date |-> 1 - j, df |-> EmptyFrame]]

InitFetch ==
  \E c \in FetchConfs :
    InitAt("fetch", c, NoRaw, EmptyFrame, {LevelsCsv}, LookBack, EmptyAttempts)

InitBuilders == InitLevels \/ InitFetch

NextBuilders ==
  \/ BuildLevels
  \/ FetchFor(FetchOutcomes)
  \/ MeanIntraday

SpecBuilders == InitBuilders /\ [][NextBuilders]_vars

\* SpecFallback: the look-back of _download_intraday over sessions of the
\* target date and of the four days before it
FallbackConfs == Confs(TickerLists({1, 2, 3}), {1}, {Num(1000)}, {TRUE})

FallbackOutcomes == Outcomes(-(LookBack + 1)..0, {{1}}, {Num(1)}, {Num(2)})

InitFallback ==
  \E c \in FallbackConfs : InitAt("fetch", c, NoRaw, EmptyFrame, {LevelsCsv}, 0, <<>>)

NextFallback ==
  \/ FetchFor(FallbackOutcomes)
  \/ MeanIntraday

SpecFallback == InitFallback /\ [][NextFallback]_vars

(***************************************************************************)
(* Properties                                                              *)
(***************************************************************************)
\* the date of the latest fetch_for attempt
AttemptDate == tried[Len(tried)].date

\* a download has been made in the latest attempt
Fetched == fetched # <<>>

\* the timestamps of the bars of tickers[i] on the attempted date
Own(i) ==
  IF fetched[i].kind # "bars" THEN {}
  ELSE {fetched[i].bars[r].ts : r \in {q \in 1..Len(fetched[i].bars) :
                                         DayOf(fetched[i].bars[q].ts) = AttemptDate}}

Live(i) == Own(i) # {}

\* the positions of the tickers that have bars on the attempted date
Remaining == SelectSeq([i \in 1..Len(conf.tickers) |-> i], Live)

\* the first bar of tickers[i] on the attempted date
FirstBar(i) ==
  LET r == CHOOSE q \in 1..Len(fetched[i].bars) :
             /\ fetched[i].bars[q].ts \in Own(i)
             /\ \A t \in Own(i) : fetched[i].bars[q].ts <= t
  IN  fetched[i].bars[r]

\* the value of column name of df at timestamp ts
Cell(df, name, ts) == df.data[PosOf(df.cols, name)][PosOf(df.index, ts)]

\* the value of series s at timestamp ts
At(s, ts) == s.vals[PosOf(s.index, ts)]

\* the first value of the percent series of tickers[i]
FirstPct(i) == Cell(iday, conf.tickers[i], FirstBar(i).ts)

Perms(n) == {p \in [1..n -> 1..n] : Range(p) = 1..n}

Pick(s, p) == [i \in 1..Len(p) |-> s[p[i]]]

\* what main derives from the downloads got of tickers for the day date0
AverageOf(tickers, got, date0) ==
  LET df == fetch_for(tickers, got, date0)
  IN  IF ~FrameEmpty(df) THEN MeanAxis1(df) ELSE EmptySeries

\* positions 1..n without x
Without(n, x) == SelectSeq([i \in 1..n |-> i], LAMBDA i : i # x)

\* every bar downloaded in the latest attempt has a close and a positive open
OrdinaryPrices ==
  \A i \in 1..Len(fetched) :
    fetched[i].kind = "bars" =>
      \A r \in 1..Len(fetched[i].bars) :
        /\ IsFinite(fetched[i].bars[r].close)
        /\ IsFinite(fetched[i].bars[r].open)
        /\ fetched[i].bars[r].open[1] > 0

\* ---- C1 --------------------------------------------------------------
\* C1: _download_intraday tries D, D-1, D-2, D-3 in that order, at most four
\* days; every day before the latest tried one gave an empty result (no
\* attempt follows a non-empty day); what it returns is the result of the
\* latest day tried, which is non-empty unless all four days were empty, and
\* then the empty result is returned and nothing is raised.
C1_FallbackOrder ==
  /\ Len(tried) <= LookBack + 1
  /\ \A j \in 1..Len(tried) : tried[j].date = 1 - j
  /\ \A j \in 1..(Len(tried) - 1) : FrameEmpty(tried[j].df)
  /\ pc # "failed"
  /\ pc = "fetch" => \A j \in 1..Len(tried) : FrameEmpty(tried[j].df)
  /\ pc = "mean" =>
       /\ Len(tried) >= 1
       /\ iday = tried[Len(tried)].df
       /\ iday = fetch_for(conf.tickers, fetched, 1 - Len(tried))
       /\ FrameEmpty(iday) => Len(tried) = LookBack + 1 /\ iday = EmptyFrame

\* D and D-1 were empty, D-2 was not, and its result is returned
C1_Witness ==
  /\ pc = "mean"
  /\ Len(tried) = 3
  /\ ~FrameEmpty(iday)
  /\ \E i \in 1..Len(conf.tickers) : fetched[i].kind = "raise"

\* ---- C2 --------------------------------------------------------------
\* C2: for every non-empty daily table and every base_level, the first value
\* of the build_levels_eq output equals base_level.
C2_FirstLevelIsBase ==
  (pc = "write_levels" /\ ~FrameEmpty(daily)) => levels.vals[1] = conf.base_level

\* ---- C3 --------------------------------------------------------------
\* C3 as claimed: the first value of each ticker's percent series is 0.0
\* (stated for the inputs whose bars all have a close and a positive open,
\* which the claim covers).
C3_FirstPctIsZero ==
  (pc = "mean" /\ Fetched /\ OrdinaryPrices) =>
    \A i \in 1..Len(conf.tickers) : Live(i) => FirstPct(i) = Num(0)

\* C3 as amended: the first value of a ticker's percent series is
\* (close / open - 1) * 100 of that ticker's first bar of the day; it is 0.0
\* exactly when that bar's close equals its non-zero open.
C3_FirstPctVsOpen ==
  (pc = "mean" /\ Fetched) =>
    \A i \in 1..Len(conf.tickers) : Live(i) =>
      LET o == FirstBar(i).open
          c == FirstBar(i).close
      IN  /\ FirstPct(i) = Num(0) <=> (c = o /\ IsFinite(o) /\ o # Num(0))
          /\ (IsFinite(o) /\ o # Num(0) /\ IsFinite(c)) =>
               FirstPct(i) = Rat(100 * (c[1] * o[2] - o[1] * c[2]), c[2] * o[1])

\* a ticker whose first bar closes away from its open: its series starts off 0.0
C3_Witness ==
  /\ pc = "mean"
  /\ Fetched
  /\ \E i \in 1..Len(conf.tickers) :
       /\ Live(i)
       /\ IsFinite(FirstBar(i).close)
       /\ FirstBar(i).open # Num(0)
       /\ FirstBar(i).close # FirstBar(i).open
       /\ IsFinite(FirstPct(i))
       /\ FirstPct(i) # Num(0)

\* ---- C4 --------------------------------------------------------------
\* C4: a run that fails has written no artifact.
C4_NoArtifactOnFailure == pc = "failed" => files = {}

\* ---- C5 --------------------------------------------------------------
\* C5: build_levels fails (InvalidBaseValueError) whenever some ticker's first
\* filled value, its divisor, is zero or negative; it returns no series then.
C5_GuardedBase ==
  (/\ pc = "write_levels"
   /\ ~FrameEmpty(daily)
   /\ \E c \in 1..Len(daily.cols) :
        LET b == Bfill(Ffill(daily.data[c]))[1]
        IN  IsFinite(b) /\ b[1] <= 0)
  => Raised(levels)

\* ---- C6 --------------------------------------------------------------
\* r is x rounded to 2 decimals: a multiple of 1/100 at most 1/200 away from
\* x, and x itself when x is not finite
IsRounded2(r, x) ==
  IF ~IsFinite(x) THEN r = x
  ELSE /\ IsFinite(r)
       /\ 100 % r[2] = 0
       /\ 200 * Abs(r[1] * x[2] - x[1] * r[2]) <= r[2] * x[2]

StatsBuilt == pc \in {"write_stats", "write_last_run", "write_post", "done"}

\* C6: in the stats record, pct_intraday is the last value of the intraday
\* average rounded to 2 decimals, or 0.0 when that series is empty; last_level
\* is the last level rounded to 2 decimals, or None when there are no levels;
\* a run whose four intraday attempts were all empty does not fail for it (a
\* run that has reached the intraday fetch fails only for a missing key).
C6_Stats ==
  /\ StatsBuilt =>
       /\ IF SeriesEmpty(intraday) THEN stats.pct_intraday = Num(0)
          ELSE IsRounded2(stats.pct_intraday, Last(intraday))
       /\ IF SeriesEmpty(levels) THEN stats.last_level = None
          ELSE stats.last_level # None /\ IsRounded2(stats.last_level, Last(levels))
  /\ (pc = "failed" /\ tried # <<>>) => ~conf.has_key
  /\ (Len(tried) = LookBack + 1 /\ FrameEmpty(iday) /\ pc = "stats") => pct_now = Num(0)

\* a finished run whose four attempts were all empty: pct_intraday is 0.0
\* beside a level that needed rounding
C6_Witness ==
  /\ pc = "done"
  /\ Len(tried) = LookBack + 1
  /\ SeriesEmpty(intraday)
  /\ stats.pct_intraday = Num(0)
  /\ ~SeriesEmpty(levels)
  /\ stats.last_level # Last(levels)

\* ---- C7 --------------------------------------------------------------
\* C7: in one day's fetch, the tickers whose download raised, was empty or
\* had no bar on the attempted date are dropped and nothing is raised: the
\* result has exactly one column for each remaining ticker, in basket order,
\* and is the result of fetching the remaining tickers alone.
C7_DroppedTickers ==
  Fetched =>
    /\ pc # "failed"
    /\ iday.cols = Pick(conf.tickers, Remaining)
    /\ iday = fetch_for(Pick(conf.tickers, Remaining), Pick(fetched, Remaining), AttemptDate)

\* one download raised, one had bars of another day only, one had bars
C7_Witness ==
  /\ Fetched
  /\ pc = "mean"
  /\ \E i \in 1..Len(conf.tickers) : fetched[i].kind = "raise"
  /\ \E i \in 1..Len(conf.tickers) : fetched[i].kind = "bars" /\ ~Live(i)
  /\ \E i \in 1..Len(conf.tickers) : Live(i)
  /\ Len(iday.cols) = 1

\* ---- C8 --------------------------------------------------------------
\* the average of the basket without ticker x
AverageWithout(x) ==
  LET rest == Without(Len(conf.tickers), x)
  IN  AverageOf(Pick(conf.tickers, rest), Pick(fetched, rest), AttemptDate)

\* the timestamps that some ticker other than x reports
OthersOwn(x) == UNION {Own(i) : i \in 1..Len(conf.tickers) \ {x}}

\* three tickers, each with bars on the attempted date, and their average
ThreeLive ==
  /\ pc = "write_intraday"
  /\ Fetched
  /\ Len(conf.tickers) = 3
  /\ \A i \in 1..3 : Live(i)

\* C8 as claimed: without ticker x the average changes only at the
\* timestamps that x alone reports, and at every timestamp x shares with
\* another ticker both averages are defined and finite (stated for the
\* inputs whose bars all have a close and a positive open, which the claim
\* covers).
C8_ChangesOnlyUnique ==
  (ThreeLive /\ OrdinaryPrices) =>
    \A x \in 1..3 :
      /\ \A ts \in OthersOwn(x) :
           /\ ts \in Range(AverageWithout(x).index)
           /\ At(AverageWithout(x), ts) = At(intraday, ts)
      /\ \A ts \in Own(x) \cap OthersOwn(x) :
           IsFinite(At(AverageWithout(x), ts)) /\ IsFinite(At(intraday, ts))

\* C8 as amended: without ticker x the average loses exactly the timestamps
\* that x alone reports and is unchanged at every timestamp x does not
\* report; at a timestamp x shares with another ticker both averages have a
\* row (the value may differ), finite when the percent values reported there
\* are finite.
C8_PartialBasket ==
  ThreeLive =>
    \A x \in 1..3 :
      /\ Range(AverageWithout(x).index) = Range(intraday.index) \ (Own(x) \ OthersOwn(x))
      /\ \A ts \in OthersOwn(x) \ Own(x) :
           At(AverageWithout(x), ts) = At(intraday, ts)
      /\ \A ts \in Own(x) \cap OthersOwn(x) :
           /\ ts \in Range(AverageWithout(x).index)
           /\ ts \in Range(intraday.index)
           /\ (\A i \in 1..3 : ts \in Own(i) => IsFinite(Cell(iday, conf.tickers[i], ts)))
                => IsFinite(At(AverageWithout(x), ts)) /\ IsFinite(At(intraday, ts))

\* a ticker with a timestamp of its own and one it shares, where the finite
\* average moves when the ticker is removed
C8_Witness ==
  /\ ThreeLive
  /\ \E x \in 1..3 :
       /\ Own(x) \ OthersOwn(x) # {}
       /\ \E ts \in Own(x) \cap OthersOwn(x) :
            /\ IsFinite(At(intraday, ts))
            /\ IsFinite(At(AverageWithout(x), ts))
            /\ At(AverageWithout(x), ts) # At(intraday, ts)

\* ---- C9 --------------------------------------------------------------
\* the daily table with its columns in the order p
PickCols(df, p) == [index |-> df.index, cols |-> Pick(df.cols, p), data |-> Pick(df.data, p)]

HasLabel(df, label) == \E c \in 1..Len(df.cols) : label \in Range(df.cols[c])

\* the data of the column of df for ticker t and field f, whichever way round
Lookup(df, t, f) == df.data[CHOOSE c \in 1..Len(df.cols) : Range(df.cols[c]) = {t, f}]

\* df with every column pair the other way round
SwapKeys(df) ==
  [df EXCEPT !.cols = [c \in 1..Len(df.cols) |-> <<df.cols[c][2], df.cols[c][1]>>]]

\* the ticker -> column mapping of an extracted table
ColumnsOf(df) == [t \in Range(df.cols) |-> df.data[PosOf(df.cols, t)]]

\* C10: from a multi-ticker table that has a close or an adjusted close, the
\* extractor returns one column per ticker, the same for (ticker, field) and
\* (field, ticker) pairs: the adjusted close when the table has one (on
\* either level), the close otherwise.
C10_EitherKeyOrder ==
  (pc # "start" /\ raw.multi /\ (HasLabel(raw, "Adj Close") \/ HasLabel(raw, "Close"))) =>
    LET out   == _download_daily(conf.tickers, raw)
        other == _download_daily(conf.tickers, SwapKeys(raw))
        field == IF HasLabel(raw, "Adj Close") THEN "Adj Close" ELSE "Close"
    IN  /\ pc = "levels"
        /\ ~Raised(out)
        /\ ~Raised(other)
        /\ Range(out.cols) = Range(conf.tickers)
        /\ Len(out.cols) = Len(conf.tickers)
        /\ \A t \in Range(conf.tickers) : ColumnsOf(out)[t] = Lookup(raw, t, field)
        /\ out.index = other.index
        /\ ColumnsOf(other) = ColumnsOf(out)
        /\ daily = IF ~FrameEmpty(out) THEN RowsFrom(out, conf.base_date) ELSE out

\* a (field, ticker) table of three tickers with adjusted closes, extracted
C10_Witness ==
  /\ pc = "levels"
  /\ raw.multi
  /\ Len(conf.tickers) = 3
  /\ raw.cols[1][1] = "Open"
  /\ HasLabel(raw, "Adj Close")
  /\ ~FrameEmpty(daily)
  /\ \E c \in 1..3 : \E r \in 1..Len(daily.index) : IsFinite(daily.data[c][r])

====
